---- MODULE Spec2Model ----
(***************************************************************************)
(* Winch: automatic Cargo dependency resolver (src/src/main.rs).           *)
(*                                                                         *)
(* main() runs an initial `cargo build`; on failure it parses the stderr   *)
(* for conflicting and missing crates, fetches candidate versions for     *)
(* each from crates.io, enumerates every version combination and tries    *)
(* them one by one against Cargo.winch.toml until one builds; the winning  *)
(* combination is then written to Cargo.toml.                              *)
(*                                                                         *)
(* main() is split at its interactions with the outside world (the build  *)
(* subprocesses, the registry queries); everything the code does between  *)
(* two such points belongs to one action.                                  *)
(***************************************************************************)
EXTENDS Integers, Sequences, FiniteSets, TLC

\* ------------------------------------------------------------------------
\* Bounds of the model
\* ------------------------------------------------------------------------
\* longest diagnostic text (in pattern matches / noise fragments)
MaxDiag == 2
\* longest `versions` array of a registry answer
MaxEntries == 2
\* number of times the process is run on the same project
MaxRuns == 2
\* longest candidate list handed to generate_combinations on its own
GenMaxLen == 2

\* longest diagnostic text handed to the parsers on their own
ParseMaxDiag == 3

\* longest `versions` array of the registry answer handed to
\* get_candidate_versions on its own
FetchMaxEntries == 6

\* const MAX_ROLLBACKS: usize = 5;
MAX_ROLLBACKS == 5

\* ------------------------------------------------------------------------
\* Values
\* ------------------------------------------------------------------------
\* crate names that can occur in the diagnostics
Names == {"a", "b"}
\* crate names in the diagnostics handed to the parsers on their own
ParseNames == {"a", "b", "c"}
\* crate names of the stand-alone candidate mappings
GenNames == {"a", "b", "c"}

\* A version string is the sequence of its dot-separated numeric components:
\* "1.10.0" is <<1, 10, 0>>; "1.2" (<<1, 2>>) is not a semantic version.
V_1_2_0 == <<1, 2, 0>>
V_1_10_0 == <<1, 10, 0>>
V_1_2 == <<1, 2>>
V_1_0_0 == <<1, 0, 0>>
Versions == {V_1_2_0, V_1_10_0, V_1_2}

\* a field that is not there (a dependency key, a JSON member)
Absent == <<>>

Range(s) == {s[i] : i \in 1..Len(s)}

SeqsUpTo(S, n) == UNION {[1..k -> S] : k \in 0..n}

\* ------------------------------------------------------------------------
\* Diagnostic text and its parsers
\* ------------------------------------------------------------------------
\* The stderr of the build is the sequence of its fragments: a match of one
\* of the three patterns with the captured name, or text matching nothing.
FragmentsOver(N) == [pat : {"select", "cantfind", "notfound"}, name : N]
                      \cup {[pat |-> "noise", name |-> "a"]}

Fragments == FragmentsOver(Names)

\* Regex::captures_iter(...).map(|cap| cap[1]).collect(): the captured names
\* of all matches of one pattern, in text order.
RECURSIVE captures_iter(_, _)
captures_iter(pat, text) ==
    IF text = <<>> THEN <<>>
    ELSE IF Head(text).pat = pat
         THEN <<Head(text).name>> \o captures_iter(pat, Tail(text))
         ELSE captures_iter(pat, Tail(text))

parse_conflicts(text) == captures_iter("select", text)

\* parse_missing_crates with the first pattern only
parse_missing_crates_re1_only(text) == captures_iter("cantfind", text)

parse_missing_crates(text) ==
    captures_iter("cantfind", text) \o captures_iter("notfound", text)

\* problem_crates = conflict_crates.clone(); extend(missing_crates)
merge_problem_crates(conflicts, missing) == conflicts \o missing

\* ------------------------------------------------------------------------
\* Registry answers and get_candidate_versions
\* ------------------------------------------------------------------------
\* one element of the "versions" array: "num" (or no string there) and
\* "yanked"
Entries == [num : Versions \cup {Absent}, yanked : BOOLEAN]

\* kind "error": send()/json() returned Err; "malformed": no "versions"
\* array in the body; "ok": the array
Responses(n) ==
    {[kind |-> "error", versions |-> <<>>], [kind |-> "malformed", versions |-> <<>>]}
      \cup {[kind |-> "ok", versions |-> vs] : vs \in SeqsUpTo(Entries, n)}

\* .filter_map(|v| { num.as_str()?; if !yanked { Some } else { None } })
RECURSIVE filter_map(_)
filter_map(entries) ==
    IF entries = <<>> THEN <<>>
    ELSE LET e == Head(entries)
         IN IF e.num # Absent /\ ~e.yanked
            THEN <<e.num>> \o filter_map(Tail(entries))
            ELSE filter_map(Tail(entries))

\* .take(MAX_ROLLBACKS)
take(s, n) == IF Len(s) <= n THEN s ELSE SubSeq(s, 1, n)

\* get_candidate_versions swallowing a failed request (an empty list
\* instead of the error)
get_candidate_versions_lenient(resp) ==
    IF resp.kind = "error" THEN [res |-> "ok", versions |-> <<>>]
    ELSE IF resp.kind = "malformed" THEN [res |-> "ok", versions |-> <<>>]
    ELSE [res |-> "ok", versions |-> take(filter_map(resp.versions), MAX_ROLLBACKS)]

\* result of get_candidate_versions: Err, a panic of as_array().unwrap(),
\* or Ok(versions)
get_candidate_versions(resp) ==
    IF resp.kind = "error" THEN [res |-> "err", versions |-> <<>>]
    ELSE IF resp.kind = "malformed" THEN [res |-> "panic", versions |-> <<>>]
    ELSE [res |-> "ok", versions |-> take(filter_map(resp.versions), MAX_ROLLBACKS)]

\* ------------------------------------------------------------------------
\* Semantic versions and the newest-first sort
\* ------------------------------------------------------------------------
\* Version::parse: major.minor.patch, all numeric
parse_ok(v) == Len(v) = 3

\* Version::cmp(x, y) < 0, on parsed versions
version_lt(x, y) ==
    \/ x[1] < y[1]
    \/ x[1] = y[1] /\ x[2] < y[2]
    \/ x[1] = y[1] /\ x[2] = y[2] /\ x[3] < y[3]

\* the comparator of sort_by: Version::parse(b).cmp(Version::parse(a)) is
\* Less, i.e. a goes before b, when b < a
RECURSIVE insert_desc(_, _)
insert_desc(x, sorted) ==
    IF sorted = <<>> THEN <<x>>
    ELSE IF version_lt(Head(sorted), x)
         THEN <<x>> \o sorted
         ELSE <<Head(sorted)>> \o insert_desc(x, Tail(sorted))

RECURSIVE sort_desc(_)
sort_desc(s) ==
    IF s = <<>> THEN <<>>
    ELSE insert_desc(s[Len(s)], sort_desc(SubSeq(s, 1, Len(s) - 1)))

\* versions.sort_by(|a, b| parse(b).unwrap().cmp(&parse(a).unwrap())):
\* the comparator runs, and unwraps both of its arguments, only when there
\* are at least two elements to compare
sort_by_version(s) ==
    IF Len(s) >= 2 /\ \E i \in 1..Len(s) : ~parse_ok(s[i])
    THEN [panic |-> TRUE, versions |-> s]
    ELSE IF Len(s) >= 2
         THEN [panic |-> FALSE, versions |-> sort_desc(s)]
         ELSE [panic |-> FALSE, versions |-> s]

\* the list kept in the order get_candidate_versions returned it
order_candidates_as_listed(crate_name, missing, versions) ==
    [panic |-> FALSE, versions |-> versions]

\* if missing_crates.contains(crate_name) { versions.sort_by(...) }
order_candidates(crate_name, missing, versions) ==
    IF crate_name \in Range(missing)
    THEN sort_by_version(versions)
    ELSE [panic |-> FALSE, versions |-> versions]

\* candidates_map.insert(crate_name, versions)
map_insert(map, k, v) ==
    [n \in DOMAIN map \cup {k} |-> IF n = k THEN v ELSE map[n]]

EmptyMap == [n \in {} |-> <<>>]

\* ------------------------------------------------------------------------
\* generate_combinations
\* ------------------------------------------------------------------------
\* the orders in which candidates_map.keys() can iterate a HashMap
KeyOrders(map) ==
    {ks \in [1..Cardinality(DOMAIN map) -> DOMAIN map] :
        \A i, j \in 1..Cardinality(DOMAIN map) : i # j => ks[i] # ks[j]}

\* the increment going through the indices from the last one down
RECURSIVE carry_loop_from_last(_, _, _, _)
carry_loop_from_last(indices, lists, i, carry) ==
    IF i > Len(indices) \/ carry = 0
    THEN [indices |-> indices, carry |-> carry]
    ELSE LET p == Len(indices) - i + 1
         IN IF indices[p] + carry >= Len(lists[p])
            THEN carry_loop_from_last([indices EXCEPT ![p] = 0], lists, i + 1, carry)
            ELSE carry_loop_from_last([indices EXCEPT ![p] = indices[p] + carry],
                                      lists, i + 1, 0)

\* let mut carry = 1; for i in 0..indices.len() { ... }  (i is 1-based here)
RECURSIVE carry_loop(_, _, _, _)
carry_loop(indices, lists, i, carry) ==
    IF i > Len(indices) \/ carry = 0
    THEN [indices |-> indices, carry |-> carry]
    ELSE IF indices[i] + carry >= Len(lists[i])
         THEN carry_loop([indices EXCEPT ![i] = 0], lists, i + 1, carry)
         ELSE carry_loop([indices EXCEPT ![i] = indices[i] + carry], lists, i + 1, 0)

\* the loop of generate_combinations leaving on the final carry before it
\* pushed the combination it had just built
RECURSIVE combos_loop_drop_last(_, _, _, _)
combos_loop_drop_last(keys, lists, indices, combos) ==
    IF \E i \in 1..Len(keys) : indices[i] >= Len(lists[i])
    THEN [panic |-> TRUE, combos |-> combos]
    ELSE LET combo == [k \in Range(keys) |->
                         LET i == CHOOSE j \in 1..Len(keys) : keys[j] = k
                         IN lists[i][indices[i] + 1]]
             inc == carry_loop(indices, lists, 1, 1)
         IN IF inc.carry = 1
            THEN [panic |-> FALSE, combos |-> combos]
            ELSE combos_loop_drop_last(keys, lists, inc.indices, Append(combos, combo))

\* one pass of `loop { ... }`: build the combination at the current indices
\* (lists[i][indices[i]] panics when out of bounds), push it, increment
RECURSIVE combos_loop(_, _, _, _)
combos_loop(keys, lists, indices, combos) ==
    IF \E i \in 1..Len(keys) : indices[i] >= Len(lists[i])
    THEN [panic |-> TRUE, combos |-> combos]
    ELSE LET combo == [k \in Range(keys) |->
                         LET i == CHOOSE j \in 1..Len(keys) : keys[j] = k
                         IN lists[i][indices[i] + 1]]
             inc == carry_loop(indices, lists, 1, 1)
         IN IF inc.carry = 1
            THEN [panic |-> FALSE, combos |-> Append(combos, combo)]
            ELSE combos_loop(keys, lists, inc.indices, Append(combos, combo))

\* keys is the order in which the map's keys were iterated
generate_combinations(map, keys) ==
    LET lists == [i \in 1..Len(keys) |-> map[keys[i]]]
        indices == [i \in 1..Len(keys) |-> 0]
    IN combos_loop(keys, lists, indices, <<>>)

\* ------------------------------------------------------------------------
\* Manifest documents
\* ------------------------------------------------------------------------
\* kind: "toml" a well-formed document, "malformed" text that does not
\* parse, "nofile" no such file.  deps is the [dependencies] table, rest
\* stands for every other part of the text.
Doc(kind, deps, rest) == [kind |-> kind, deps |-> deps, rest |-> rest]

NoDeps == [n \in Names |-> Absent]
OrigManifest == Doc("toml", [n \in Names |-> IF n = "a" THEN V_1_0_0 ELSE Absent], "package")
MalformedManifest == Doc("malformed", NoDeps, "garbage")
NoFile == Doc("nofile", NoDeps, "")
\* what File::create leaves when the write after it fails
TruncatedFile == Doc("toml", NoDeps, "")

\* a document holding the combination's assignments and no other dependency
apply_combo_only(doc, combo) ==
    [doc EXCEPT !.deps = [n \in Names |-> IF n \in DOMAIN combo THEN combo[n] ELSE Absent]]

\* for (crate_name, version) in &combo { doc["dependencies"][crate_name] = value(version) }
apply_combo(doc, combo) ==
    [doc EXCEPT !.deps = [n \in Names |-> IF n \in DOMAIN combo THEN combo[n] ELSE @[n]]]

\* ------------------------------------------------------------------------
\* State of main()
\* ------------------------------------------------------------------------
VARIABLES
    pc,               \* position in main(): "Start", "Fetching", "Enumerating",
                      \* "Trialing", "Building", "Committing", "Done"
    outcome,          \* how main() ended: "" while running, "help", "fastpath",
                      \* "no_issue", "succeeded", "exhausted", "error", "panic"
    failure,          \* which `?` or unwrap() ended the run ("" if none)
    exit_code,        \* exit status of the process: -1 while it runs, 0 for
                      \* Ok(()), 1 for Err, 101 for a panic
    build0,           \* result of the initial build: "none", "ok", "failed", "spawn_err"
    stderr,           \* captured stderr of the initial build
    conflict_crates,
    missing_crates,
    problem_crates,
    resp,             \* the registry answer get_candidate_versions is given when
                      \* it is studied on its own (SpecFetch); in a run of main()
                      \* the answers are drawn as they arrive and dropped when
                      \* get_candidate_versions returns
    queries,          \* the registry queries made so far in this run, each with
                      \* the kind of answer and what get_candidate_versions
                      \* returned for it
    candidates_map,
    keys,             \* iteration order of candidates_map.keys()
    all_combinations,
    next_combo,       \* position of `for combo in all_combinations` (1-based)
    doc,              \* the edited document of the current trial
    trials,           \* the manifests the trial builds were spawned on, in order
    last_build,       \* result of the latest trial build: "none", "ok", "failed", "spawn_err"
    cargoToml,        \* content of Cargo.toml
    winchToml,        \* content of Cargo.winch.toml
    cargo0,           \* content of Cargo.toml when the run started
    winch0,           \* content of Cargo.winch.toml when the run started
    cargo_writes,     \* fs::write calls on Cargo.toml in this run
    winch_writes,     \* fs::write calls on Cargo.winch.toml in this run
    runs              \* number of the current run

vars == <<pc, outcome, failure, exit_code, build0, stderr, conflict_crates,
          missing_crates, problem_crates, resp, queries, candidates_map, keys, all_combinations,
          next_combo, doc, trials, last_build, cargoToml, winchToml, cargo0,
          winch0, cargo_writes, winch_writes, runs>>

files == <<cargoToml, winchToml, cargo_writes, winch_writes>>
parsed == <<stderr, conflict_crates, missing_crates, problem_crates>>
fetching == <<resp, queries, candidates_map>>
enumeration == <<keys, all_combinations>>
trialing == <<next_combo, doc, trials, last_build>>

\* no registry answer
NoResponse == [kind |-> "none", versions |-> <<>>]

\* the locals of main() before anything ran
FreshRun ==
    /\ pc = "Start"
    /\ outcome = ""
    /\ failure = ""
    /\ exit_code = -1
    /\ build0 = "none"
    /\ stderr = <<>>
    /\ conflict_crates = <<>>
    /\ missing_crates = <<>>
    /\ problem_crates = <<>>
    /\ resp = NoResponse
    /\ queries = <<>>
    /\ candidates_map = EmptyMap
    /\ keys = <<>>
    /\ all_combinations = <<>>
    /\ next_combo = 1
    /\ doc = NoFile
    /\ trials = <<>>
    /\ last_build = "none"
    /\ cargo_writes = 0
    /\ winch_writes = 0

Init ==
    /\ FreshRun
    /\ cargoToml \in {OrigManifest, MalformedManifest}
    /\ winchToml = NoFile
    /\ cargo0 = cargoToml
    /\ winch0 = winchToml
    /\ runs = 1

\* return Ok(()) with the given outcome
ReturnOk(how) ==
    /\ pc' = "Done"
    /\ outcome' = how
    /\ failure' = ""
    /\ exit_code' = 0

\* an Err out of main() reported with the status of a success
ReturnErr_status_0(why) ==
    /\ pc' = "Done"
    /\ outcome' = "error"
    /\ failure' = why
    /\ exit_code' = 0

\* `?` propagates an Err out of main()
ReturnErr(why) ==
    /\ pc' = "Done"
    /\ outcome' = "error"
    /\ failure' = why
    /\ exit_code' = 1

\* an unwrap() or an index out of bounds aborts the process
Panic(why) ==
    /\ pc' = "Done"
    /\ outcome' = "panic"
    /\ failure' = why
    /\ exit_code' = 101

Goto(p) ==
    /\ pc' = p
    /\ UNCHANGED <<outcome, failure, exit_code>>

\* ------------------------------------------------------------------------
\* Actions
\* ------------------------------------------------------------------------
\* if args.iter().any(|a| a == "--help" || a == "-h") { print_help(); return Ok(()) }
PrintHelp ==
    /\ pc = "Start"
    /\ ReturnOk("help")
    /\ UNCHANGED <<build0, parsed, fetching, enumeration, trialing, files,
                   cargo0, winch0, runs>>

\* main() without the check for an empty problem list
no_problems_unchecked(problems) == FALSE

\* if problem_crates.is_empty() { return Ok(()) }
no_problems(problems) == problems = <<>>

\* Step 2: detect the problem crates in the stderr of the failed build
Detect(text) ==
    /\ stderr' = text
    /\ conflict_crates' = parse_conflicts(text)
    /\ missing_crates' = parse_missing_crates(text)
    /\ problem_crates' = merge_problem_crates(conflict_crates', missing_crates')
    /\ IF no_problems(problem_crates')
       THEN ReturnOk("no_issue")
       ELSE Goto("Fetching")

\* main() without the return after a successful initial build: the stderr
\* of the successful build is parsed as well
InitialBuild_no_return ==
    /\ pc = "Start"
    /\ \/ /\ build0' = "spawn_err"
          /\ ReturnErr("spawn")
          /\ UNCHANGED parsed
       \/ \E status \in {"ok", "failed"} :
          \E text \in SeqsUpTo(Fragments, MaxDiag) :
            /\ build0' = status
            /\ Detect(text)
    /\ UNCHANGED <<fetching, enumeration, trialing, files, cargo0, winch0, runs>>

\* Step 1 and 2: the initial build, and the detection of the problem crates
\* in its stderr
InitialBuild ==
    /\ pc = "Start"
    /\ \/ /\ build0' = "spawn_err"
          /\ ReturnErr("spawn")
          /\ UNCHANGED parsed
       \/ \E text \in SeqsUpTo(Fragments, MaxDiag) :
            /\ build0' = "ok"
            /\ stderr' = text
            /\ ReturnOk("fastpath")
            /\ UNCHANGED <<conflict_crates, missing_crates, problem_crates>>
       \/ \E text \in SeqsUpTo(Fragments, MaxDiag) :
            /\ build0' = "failed"
            /\ Detect(text)
    /\ UNCHANGED <<fetching, enumeration, trialing, files, cargo0, winch0, runs>>

\* Step 3, one pass of `for crate_name in &problem_crates`, the registry
\* answering r
FetchPass(r) ==
    /\ pc = "Fetching"
    /\ Len(queries) < Len(problem_crates)
    /\ LET crate_name == problem_crates[Len(queries) + 1]
           got == get_candidate_versions(r)
           ordered == order_candidates(crate_name, missing_crates, got.versions)
       IN /\ queries' = Append(queries, [name |-> crate_name, kind |-> r.kind,
                                         res |-> got.res,
                                         versions |-> got.versions])
          /\ IF got.res = "err"
             THEN ReturnErr("fetch") /\ UNCHANGED candidates_map
             ELSE IF got.res = "panic"
             THEN Panic("response") /\ UNCHANGED candidates_map
             ELSE IF ordered.panic
             THEN Panic("version_parse") /\ UNCHANGED candidates_map
             ELSE /\ candidates_map' = map_insert(candidates_map, crate_name,
                                                  ordered.versions)
                  /\ IF Len(queries') = Len(problem_crates)
                     THEN Goto("Enumerating")
                     ELSE Goto("Fetching")
    /\ UNCHANGED <<build0, parsed, resp, enumeration, trialing, files, cargo0,
                   winch0, runs>>

FetchCandidates == \E r \in Responses(MaxEntries) : FetchPass(r)

\* Step 4: let all_combinations = generate_combinations(&candidates_map)
Enumerate ==
    /\ pc = "Enumerating"
    /\ \E ks \in KeyOrders(candidates_map) :
         LET out == generate_combinations(candidates_map, ks)
         IN /\ keys' = ks
            /\ all_combinations' = out.combos
            /\ IF out.panic THEN Panic("index") ELSE Goto("Trialing")
    /\ UNCHANGED <<build0, parsed, fetching, trialing, files, cargo0, winch0, runs>>

\* the trial loop walking all_combinations from its end
current_combo_rev(combos, i) == combos[Len(combos) - i + 1]

\* for combo in all_combinations: the combination of the i-th pass
current_combo(combos, i) == combos[i]

\* taking any build that ran to its end for a success
success_any(result) == result \in {"ok", "failed"}

\* build_result.success()
success(result) == result = "ok"

\* the loop left one combination before its end
Exhaust_early ==
    /\ pc = "Trialing"
    /\ next_combo >= Len(all_combinations)
    /\ ReturnOk("exhausted")
    /\ UNCHANGED <<build0, parsed, fetching, enumeration, trialing, files,
                   cargo0, winch0, runs>>

\* the `for combo in all_combinations` loop has run out of combinations
Exhaust ==
    /\ pc = "Trialing"
    /\ next_combo > Len(all_combinations)
    /\ ReturnOk("exhausted")
    /\ UNCHANGED <<build0, parsed, fetching, enumeration, trialing, files,
                   cargo0, winch0, runs>>

\* fs::write(path, text): Ok, or Err leaving the file as it was or truncated
WriteResults(old, new) ==
    {[ok |-> TRUE, content |-> new], [ok |-> FALSE, content |-> old],
     [ok |-> FALSE, content |-> TruncatedFile]}

\* the trial written over Cargo.toml itself instead of Cargo.winch.toml
PrepareTrial_in_place ==
    /\ pc = "Trialing"
    /\ next_combo <= Len(all_combinations)
    /\ LET combo == current_combo(all_combinations, next_combo)
       IN \E read_ok \in BOOLEAN :
            IF ~read_ok \/ cargoToml.kind = "nofile"
            THEN ReturnErr("manifest_read")
                 /\ UNCHANGED <<doc, cargoToml, winch_writes>>
            ELSE IF cargoToml.kind = "malformed"
            THEN ReturnErr("manifest_parse")
                 /\ UNCHANGED <<doc, cargoToml, winch_writes>>
            ELSE /\ doc' = apply_combo(cargoToml, combo)
                 /\ winch_writes' = winch_writes + 1
                 /\ \E w \in WriteResults(cargoToml, doc') :
                      /\ cargoToml' = w.content
                      /\ IF w.ok THEN Goto("Building") ELSE ReturnErr("trial_write")
    /\ UNCHANGED <<build0, parsed, fetching, enumeration, next_combo, trials,
                   last_build, winchToml, cargo_writes, cargo0, winch0, runs>>

\* Step 5, top of the loop body: read and parse Cargo.toml, apply the
\* combination, write Cargo.winch.toml
PrepareTrial ==
    /\ pc = "Trialing"
    /\ next_combo <= Len(all_combinations)
    /\ LET combo == current_combo(all_combinations, next_combo)
       IN \E read_ok \in BOOLEAN :
            IF ~read_ok \/ cargoToml.kind = "nofile"
            THEN ReturnErr("manifest_read")
                 /\ UNCHANGED <<doc, winchToml, winch_writes>>
            ELSE IF cargoToml.kind = "malformed"
            THEN ReturnErr("manifest_parse")
                 /\ UNCHANGED <<doc, winchToml, winch_writes>>
            ELSE /\ doc' = apply_combo(cargoToml, combo)
                 /\ winch_writes' = winch_writes + 1
                 /\ \E w \in WriteResults(winchToml, doc') :
                      /\ winchToml' = w.content
                      /\ IF w.ok THEN Goto("Building") ELSE ReturnErr("trial_write")
    /\ UNCHANGED <<build0, parsed, fetching, enumeration, next_combo, trials,
                   last_build, cargoToml, cargo_writes, cargo0, winch0, runs>>

\* the loop trying the same combination again after a failed build
RunTrialBuild_retry ==
    /\ pc = "Building"
    /\ trials' = Append(trials, winchToml)
    /\ \E result \in {"spawn_err", "ok", "failed"} :
         /\ last_build' = result
         /\ IF result = "spawn_err"
            THEN ReturnErr("spawn") /\ UNCHANGED next_combo
            ELSE IF success(result)
            THEN Goto("Committing") /\ UNCHANGED next_combo
            ELSE Goto("Trialing") /\ UNCHANGED next_combo
    /\ UNCHANGED <<build0, parsed, fetching, enumeration, doc, files, cargo0,
                   winch0, runs>>

\* cargo build --manifest-path Cargo.winch.toml: spawn()?.wait()?
RunTrialBuild ==
    /\ pc = "Building"
    /\ trials' = Append(trials, winchToml)
    /\ \E result \in {"spawn_err", "ok", "failed"} :
         /\ last_build' = result
         /\ IF result = "spawn_err"
            THEN ReturnErr("spawn") /\ UNCHANGED next_combo
            ELSE IF success(result)
            THEN Goto("Committing") /\ UNCHANGED next_combo
            ELSE Goto("Trialing") /\ next_combo' = next_combo + 1
    /\ UNCHANGED <<build0, parsed, fetching, enumeration, doc, files, cargo0,
                   winch0, runs>>

\* if build_result.success() { fs::write(&cargo_toml_path, doc.to_string())?; return Ok(()) }
CommitManifest ==
    /\ pc = "Committing"
    /\ cargo_writes' = cargo_writes + 1
    /\ \E w \in WriteResults(cargoToml, doc) :
         /\ cargoToml' = w.content
         /\ IF w.ok THEN ReturnOk("succeeded") ELSE ReturnErr("manifest_write")
    /\ UNCHANGED <<build0, parsed, fetching, enumeration, trialing, winchToml,
                   winch_writes, cargo0, winch0, runs>>

\* the process is run again on a project whose build just succeeded
Rerun ==
    /\ pc = "Done"
    /\ outcome = "fastpath"
    /\ runs < MaxRuns
    /\ pc' = "Start"
    /\ outcome' = ""
    /\ failure' = ""
    /\ exit_code' = -1
    /\ build0' = "none"
    /\ stderr' = <<>>
    /\ conflict_crates' = <<>>
    /\ missing_crates' = <<>>
    /\ problem_crates' = <<>>
    /\ resp' = NoResponse
    /\ queries' = <<>>
    /\ candidates_map' = EmptyMap
    /\ keys' = <<>>
    /\ all_combinations' = <<>>
    /\ next_combo' = 1
    /\ doc' = NoFile
    /\ trials' = <<>>
    /\ last_build' = "none"
    /\ cargo_writes' = 0
    /\ winch_writes' = 0
    /\ cargo0' = cargoToml
    /\ winch0' = winchToml
    /\ runs' = runs + 1
    /\ UNCHANGED <<cargoToml, winchToml>>

Next ==
    \/ PrintHelp
    \/ InitialBuild
    \/ FetchCandidates
    \/ Enumerate
    \/ Exhaust
    \/ PrepareTrial
    \/ RunTrialBuild
    \/ CommitManifest
    \/ Rerun

Spec == Init /\ [][Next]_vars

TypeOK ==
    /\ pc \in {"Start", "Fetching", "Enumerating", "Trialing", "Building",
               "Committing", "Done"}
    /\ outcome \in {"", "help", "fastpath", "no_issue", "succeeded", "exhausted",
                    "error", "panic"}
    /\ (pc = "Done") <=> (outcome # "")
    /\ next_combo \in 1..(Len(all_combinations) + 1)
    /\ runs \in 1..MaxRuns

\* one run of the process, every step of which is taken in the end: main()
\* is sequential code, and every subprocess and every request it waits for
\* returns
NextRun ==
    \/ PrintHelp
    \/ InitialBuild
    \/ FetchCandidates
    \/ Enumerate
    \/ Exhaust
    \/ PrepareTrial
    \/ RunTrialBuild
    \/ CommitManifest

SpecRun == Init /\ [][NextRun]_vars /\ WF_vars(NextRun)

\* ------------------------------------------------------------------------
\* generate_combinations on its own: every candidate mapping within the
\* bounds, empty lists and the empty mapping included
\* ------------------------------------------------------------------------
\* the lists a registry can answer with: no version number twice
GenLists == {l \in SeqsUpTo(Versions, GenMaxLen) :
                \A i, j \in 1..Len(l) : i # j => l[i] # l[j]}

GenMaps == UNION {[D -> GenLists] : D \in SUBSET GenNames}

InitGen ==
    /\ pc = "Enumerating"
    /\ outcome = ""
    /\ failure = ""
    /\ exit_code = -1
    /\ build0 = "failed"
    /\ stderr = <<>>
    /\ conflict_crates = <<>>
    /\ missing_crates = <<>>
    /\ problem_crates = <<>>
    /\ resp = NoResponse
    /\ queries = <<>>
    /\ candidates_map \in GenMaps
    /\ keys = <<>>
    /\ all_combinations = <<>>
    /\ next_combo = 1
    /\ doc = NoFile
    /\ trials = <<>>
    /\ last_build = "none"
    /\ cargo_writes = 0
    /\ winch_writes = 0
    /\ cargoToml = OrigManifest
    /\ winchToml = NoFile
    /\ cargo0 = cargoToml
    /\ winch0 = winchToml
    /\ runs = 1

NextGen == Enumerate

SpecGen == InitGen /\ [][NextGen]_vars

\* another run of the process reaching generate_combinations with the same
\* candidate mapping: its HashMap iterates the keys in an order of its own
EnumerateAgain ==
    /\ pc = "Trialing"
    /\ \E ks \in KeyOrders(candidates_map) :
         LET out == generate_combinations(candidates_map, ks)
         IN /\ keys' = ks
            /\ all_combinations' = out.combos
            /\ IF out.panic THEN Panic("index") ELSE Goto("Trialing")
    /\ UNCHANGED <<build0, parsed, fetching, trialing, files, cargo0, winch0, runs>>

NextGenAgain == Enumerate \/ EnumerateAgain

SpecGenAgain == InitGen /\ [][NextGenAgain]_vars

\* ------------------------------------------------------------------------
\* The parsers on their own: every diagnostic text within the bounds, over
\* three crate names
\* ------------------------------------------------------------------------
InitParse ==
    /\ pc = "Start"
    /\ outcome = ""
    /\ failure = ""
    /\ exit_code = -1
    /\ build0 = "none"
    /\ stderr \in SeqsUpTo(FragmentsOver(ParseNames), ParseMaxDiag)
    /\ conflict_crates = <<>>
    /\ missing_crates = <<>>
    /\ problem_crates = <<>>
    /\ resp = NoResponse
    /\ queries = <<>>
    /\ candidates_map = EmptyMap
    /\ keys = <<>>
    /\ all_combinations = <<>>
    /\ next_combo = 1
    /\ doc = NoFile
    /\ trials = <<>>
    /\ last_build = "none"
    /\ cargo_writes = 0
    /\ winch_writes = 0
    /\ cargoToml = OrigManifest
    /\ winchToml = NoFile
    /\ cargo0 = cargoToml
    /\ winch0 = winchToml
    /\ runs = 1

\* the initial build has failed with the stderr at hand
DetectGiven ==
    /\ pc = "Start"
    /\ build0' = "failed"
    /\ Detect(stderr)
    /\ UNCHANGED <<fetching, enumeration, trialing, files, cargo0, winch0, runs>>

NextParse == DetectGiven

SpecParse == InitParse /\ [][NextParse]_vars

\* ------------------------------------------------------------------------
\* One pass of the fetch loop on its own: crate a, found as a conflict, as
\* missing or as both, and every registry answer within the bounds (arrays
\* longer than MAX_ROLLBACKS included)
\* ------------------------------------------------------------------------
FetchEntries == [num : {V_1_2_0, V_1_10_0}, yanked : BOOLEAN]
                  \cup {[num |-> Absent, yanked |-> FALSE]}

FetchResponses ==
    {[kind |-> "error", versions |-> <<>>], [kind |-> "malformed", versions |-> <<>>]}
      \cup {[kind |-> "ok", versions |-> vs] : vs \in SeqsUpTo(FetchEntries, FetchMaxEntries)}

FetchTexts ==
    {<<[pat |-> "select", name |-> "a"]>>,
     <<[pat |-> "cantfind", name |-> "a"]>>,
     <<[pat |-> "select", name |-> "a"], [pat |-> "notfound", name |-> "a"]>>}

InitFetch ==
    /\ pc = "Fetching"
    /\ outcome = ""
    /\ failure = ""
    /\ exit_code = -1
    /\ build0 = "failed"
    /\ stderr \in FetchTexts
    /\ conflict_crates = parse_conflicts(stderr)
    /\ missing_crates = parse_missing_crates(stderr)
    /\ problem_crates = <<"a">>
    /\ resp \in FetchResponses
    /\ queries = <<>>
    /\ candidates_map = EmptyMap
    /\ keys = <<>>
    /\ all_combinations = <<>>
    /\ next_combo = 1
    /\ doc = NoFile
    /\ trials = <<>>
    /\ last_build = "none"
    /\ cargo_writes = 0
    /\ winch_writes = 0
    /\ cargoToml = OrigManifest
    /\ winchToml = NoFile
    /\ cargo0 = cargoToml
    /\ winch0 = winchToml
    /\ runs = 1

\* the registry answers the query with the answer at hand
FetchGiven == FetchPass(resp)

NextFetch == FetchGiven

SpecFetch == InitFetch /\ [][NextFetch]_vars

\* ------------------------------------------------------------------------
\* Properties
\* ------------------------------------------------------------------------
\* a run that got past the fetches and the enumeration
InTrials == pc \in {"Trialing", "Building", "Committing"}

\* C1: Cargo.toml is written at most once in a run; the write comes directly
\* after a trial build that succeeded (it is the last step of the run, and
\* the latest build is that success); the text handed to the write is the
\* manifest the run started with, with the assignments of that trial's
\* combination, which is what Cargo.winch.toml held for the successful
\* build; a write that returned Ok left exactly this in Cargo.toml; without
\* a write Cargo.toml is as the run found it.
C1_ManifestWrittenOnceAfterSuccess ==
    /\ cargo_writes <= 1
    /\ cargo_writes = 0 => cargoToml = cargo0
    /\ cargo_writes = 1 =>
         /\ pc = "Done"
         /\ last_build = "ok"
         /\ trials # <<>>
         /\ next_combo = Len(trials)
         /\ doc = apply_combo(cargo0, all_combinations[next_combo])
         /\ doc = trials[Len(trials)]
         /\ doc = winchToml
         /\ outcome = "succeeded" => cargoToml = doc
         /\ outcome # "succeeded" => outcome = "error" /\ failure = "manifest_write"

C1_Witness ==
    /\ outcome = "succeeded"
    /\ cargo_writes = 1
    /\ cargoToml # cargo0
    /\ Len(trials) >= 2

RECURSIVE Product(_, _)
Product(map, D) ==
    IF D = {} THEN 1
    ELSE LET k == CHOOSE x \in D : TRUE
         IN Len(map[k]) * Product(map, D \ {k})

NoRepeats(s) == \A i, j \in 1..Len(s) : i # j => s[i] # s[j]

GenPrecondition ==
    /\ DOMAIN candidates_map # {}
    /\ \A k \in DOMAIN candidates_map :
         candidates_map[k] # <<>> /\ NoRepeats(candidates_map[k])

\* C2: for a mapping of one or more packages to non-empty lists without
\* repeated versions, generate_combinations returns exactly n_1*...*n_p
\* combinations, pairwise distinct, each giving every package one version of
\* its own list, and every version of every list occurs in some combination.
C2_CartesianProduct ==
    (pc = "Trialing" /\ GenPrecondition) =>
        /\ Len(all_combinations) = Product(candidates_map, DOMAIN candidates_map)
        /\ NoRepeats(all_combinations)
        /\ \A i \in 1..Len(all_combinations) :
             /\ DOMAIN all_combinations[i] = DOMAIN candidates_map
             /\ \A k \in DOMAIN candidates_map :
                  all_combinations[i][k] \in Range(candidates_map[k])
        /\ \A k \in DOMAIN candidates_map :
             \A v \in Range(candidates_map[k]) :
                \E i \in 1..Len(all_combinations) : all_combinations[i][k] = v

C2_Witness ==
    /\ pc = "Trialing"
    /\ GenPrecondition
    /\ Cardinality(DOMAIN candidates_map) = 3
    /\ \E k \in DOMAIN candidates_map : Len(candidates_map[k]) = 1
    /\ Len(all_combinations) = 4

\* C3: the k-th trial build runs on the manifest of the k-th enumerated
\* combination; at most one trial is under way at a time (the trial at the
\* loop position); a successful trial build is the last one: the run goes on
\* to write Cargo.toml and ends, Succeeded unless that write fails, with the
\* later combinations untried.
C3_TrialsInOrderFirstSuccessWins ==
    /\ Len(trials) <= Len(all_combinations)
    /\ \A k \in 1..Len(trials) :
         trials[k] = apply_combo(cargo0, all_combinations[k])
    /\ Len(trials) \in {next_combo - 1, next_combo}
    /\ pc = "Building" => Len(trials) = next_combo - 1
    /\ last_build = "ok" =>
         /\ pc \in {"Committing", "Done"}
         /\ Len(trials) = next_combo
         /\ pc = "Done" =>
              \/ outcome = "succeeded"
              \/ outcome = "error" /\ failure = "manifest_write"
    /\ outcome = "succeeded" => last_build = "ok"

C3_Witness ==
    /\ outcome = "succeeded"
    /\ Len(trials) = 2
    /\ Len(all_combinations) = 4
    /\ all_combinations[1] # all_combinations[2]

\* C4: when the initial build succeeds the run ends at once on the fast
\* path: no problem crate is recorded, no registry query is made, no
\* combination is enumerated, no trial runs, neither manifest is written;
\* a run made again on that project starts from the same files, so it does
\* the same.
C4_FastPathNoOp ==
    /\ build0 = "ok" =>
         /\ pc = "Done"
         /\ outcome = "fastpath"
         /\ problem_crates = <<>>
         /\ queries = <<>>
         /\ all_combinations = <<>>
         /\ trials = <<>>
         /\ cargo_writes = 0
         /\ winch_writes = 0
         /\ cargoToml = cargo0
         /\ winchToml = winch0
    /\ runs > 1 => cargo0 \in {OrigManifest, MalformedManifest} /\ winch0 = NoFile

C4_Witness ==
    /\ runs = 2
    /\ outcome = "fastpath"

\* C5: when the initial build fails and its stderr matches no pattern (no
\* conflict crate, no missing crate), the run ends with the "no parseable
\* issue" outcome, having made no registry query, run no trial build and
\* written no manifest file.
C5_NoParseableIssue ==
    (build0 = "failed" /\ conflict_crates = <<>> /\ missing_crates = <<>>) =>
        /\ pc = "Done"
        /\ outcome = "no_issue"
        /\ queries = <<>>
        /\ all_combinations = <<>>
        /\ trials = <<>>
        /\ cargo_writes = 0
        /\ winch_writes = 0
        /\ cargoToml = cargo0
        /\ winchToml = winch0

C5_Witness ==
    /\ build0 = "failed"
    /\ outcome = "no_issue"
    /\ problem_crates = <<>>

\* C6: the i-th registry query is for the i-th problem crate (none is asked
\* twice); a query that fails (an error, or an answer without a versions
\* array) is the last one: the run is over, with nothing enumerated and no
\* trial build; a trial is prepared or run only when every problem crate has
\* been queried and every query returned its list.
C6_FetchFailureAborts ==
    /\ Len(queries) <= Len(problem_crates)
    /\ \A i \in 1..Len(queries) :
         /\ queries[i].name = problem_crates[i]
         /\ queries[i].kind # "ok" =>
              /\ i = Len(queries)
              /\ pc = "Done"
              /\ outcome \in {"error", "panic"}
              /\ candidates_map = EmptyMap \/ DOMAIN candidates_map
                                                = {queries[j].name : j \in 1..(i - 1)}
              /\ all_combinations = <<>>
              /\ trials = <<>>
              /\ winch_writes = 0
    /\ (InTrials \/ trials # <<>> \/ winch_writes > 0) =>
         /\ Len(queries) = Len(problem_crates)
         /\ \A i \in 1..Len(queries) : queries[i].kind = "ok" /\ queries[i].res = "ok"

C6_Witness ==
    /\ Len(problem_crates) = 2
    /\ Len(queries) = 1
    /\ queries[1].kind = "error"
    /\ outcome = "error"
    /\ failure = "fetch"

\* the hard failures other than a failed write of Cargo.toml itself
HardFailure ==
    /\ outcome \in {"error", "panic"}
    /\ failure \in {"fetch", "response", "version_parse", "index", "manifest_read",
                    "manifest_parse", "trial_write", "spawn"}

\* C7: in a run that ended with a hard failure (a registry fetch error, a
\* manifest read or parse error, a failed write of the trial manifest, a
\* build that could not be spawned, a version that does not parse, a panic)
\* Cargo.toml was never written and holds what it held when the run began,
\* however many trials failed before.
C7_HardFailureLeavesManifest ==
    HardFailure => cargoToml = cargo0 /\ cargo_writes = 0

C7_Witness ==
    /\ HardFailure
    /\ failure = "spawn"
    /\ Len(trials) = 3
    /\ cargoToml = cargo0

\* C8: when the enumeration is about to begin, every problem crate has one
\* candidate list and that list is not empty.
C8_CandidateListsNonEmpty ==
    pc = "Enumerating" =>
        \A i \in 1..Len(problem_crates) :
            /\ problem_crates[i] \in DOMAIN candidates_map
            /\ candidates_map[problem_crates[i]] # <<>>

\* C9: no crate name occurs twice among the problem crates, and no crate is
\* queried twice in a run.
C9_ProblemCratesDistinct ==
    /\ NoRepeats(problem_crates)
    /\ \A i, j \in 1..Len(queries) : i # j => queries[i].name # queries[j].name

\* the latest list get_candidate_versions returned for a crate
LastFetched(name) ==
    LET i == CHOOSE j \in 1..Len(queries) :
                /\ queries[j].name = name
                /\ \A l \in (j + 1)..Len(queries) : queries[l].name # name
    IN queries[i].versions

\* C10: a crate matched both by the conflict pattern and by a missing
\* pattern is a Conflict crate: its candidate list is the list the registry
\* query returned, in the registry's order.
C10_ConflictTakesPrecedence ==
    \A n \in Range(conflict_crates) \cap Range(missing_crates) :
        (n \in DOMAIN candidates_map /\ outcome \notin {"error", "panic"}) =>
            candidates_map[n] = LastFetched(n)

\* positions of the text where one of the patterns matches
Matches(text, pats) == {i \in 1..Len(text) : text[i].pat \in pats}

ConflictPats == {"select"}
MissingPats == {"cantfind", "notfound"}

\* no two matches of the text capture the same name
DistinctMatches(text) ==
    \A i, j \in Matches(text, ConflictPats \cup MissingPats) :
        i # j => text[i].name # text[j].name

\* C11: when the stderr holds k conflict-pattern matches and m
\* missing-pattern matches, all capturing different names, the parsers and
\* their merge give exactly k + m problem crates: k conflict crates, m
\* missing crates, each captured name once.
C11_ParserCountsMatches ==
    (build0 = "failed" /\ DistinctMatches(stderr)) =>
        /\ Len(conflict_crates) = Cardinality(Matches(stderr, ConflictPats))
        /\ Len(missing_crates) = Cardinality(Matches(stderr, MissingPats))
        /\ Len(problem_crates) = Cardinality(Matches(stderr, ConflictPats))
                                  + Cardinality(Matches(stderr, MissingPats))
        /\ NoRepeats(problem_crates)
        /\ Range(problem_crates)
             = {stderr[i].name : i \in Matches(stderr, ConflictPats \cup MissingPats)}

C11_Witness ==
    /\ build0 = "failed"
    /\ DistinctMatches(stderr)
    /\ Cardinality(Matches(stderr, ConflictPats)) = 1
    /\ Cardinality(Matches(stderr, {"cantfind"})) = 1
    /\ Cardinality(Matches(stderr, {"notfound"})) = 1
    /\ Len(problem_crates) = 3

\* positions of the non-withdrawn versions in a registry answer
Kept(entries) ==
    {i \in 1..Len(entries) : entries[i].num # Absent /\ ~entries[i].yanked}

Min(x, y) == IF x <= y THEN x ELSE y

\* the first min(5, number of non-withdrawn versions) non-withdrawn versions
\* of the answer, in the answer's order
FirstKept(entries) ==
    [k \in 1..Min(5, Cardinality(Kept(entries))) |->
        LET i == CHOOSE j \in Kept(entries) :
                    Cardinality({l \in Kept(entries) : l <= j}) = k
        IN entries[i].num]

\* what get_candidate_versions returned is the first min(5, n) non-withdrawn
\* versions in registry order
FetchedAsListed ==
    (resp.kind = "ok" /\ queries # <<>>) =>
        /\ queries[1].res = "ok"
        /\ queries[1].versions = FirstKept(resp.versions)
        /\ Len(queries[1].versions) <= 5
        /\ \A k \in 1..Len(queries[1].versions) :
             \E i \in Kept(resp.versions) : resp.versions[i].num = queries[1].versions[k]

\* the list of a crate found as a conflict is in the map as it was returned
ConflictListUnchanged ==
    \A i \in 1..Len(queries) :
        (queries[i].name \in Range(conflict_crates) /\ queries[i].res = "ok") =>
            /\ outcome # "panic"
            /\ queries[i].name \in DOMAIN candidates_map
            /\ i = Len(queries) => candidates_map[queries[i].name] = queries[i].versions

\* C12: get_candidate_versions returns exactly the first min(5, number of
\* non-withdrawn entries) non-withdrawn versions of the registry answer in
\* registry order (never more than 5, never a withdrawn one), and for a
\* Conflict crate this list is what the enumerator gets.
C12_CappedListReachesEnumerator ==
    /\ FetchedAsListed
    /\ ConflictListUnchanged

\* C13: the first trial gives every Missing crate the highest, by version
\* precedence, of the candidates fetched for it (the list the candidate
\* map holds for the crate), whatever the registry's order and the other
\* problem crates.
C13_FirstTrialNewestForMissing ==
    trials # <<>> =>
        \A n \in Range(missing_crates) :
            /\ trials[1].deps[n] \in Range(LastFetched(n))
            /\ \A v \in Range(LastFetched(n)) :
                 (parse_ok(v) /\ parse_ok(trials[1].deps[n])) =>
                     ~version_lt(trials[1].deps[n], v)

C13_Witness ==
    /\ trials # <<>>
    /\ missing_crates = <<"a">>
    /\ conflict_crates = <<"b">>
    /\ LastFetched("a") = <<V_1_2_0, V_1_10_0>>
    /\ trials[1].deps["a"] = V_1_10_0

\* C14: the order of the combinations is a function of the candidate
\* mapping alone: enumerating the same mapping again gives the same
\* combinations in the same sequence.
C14_EmissionOrderFixed ==
    [][(pc = "Trialing" /\ pc' = "Trialing") => all_combinations' = all_combinations]_vars

\* C15: a run whose trial loop ends without a successful build has run
\* exactly n_1*...*n_p trial builds, one per enumerated combination, every
\* one of them failed, it ends Exhausted, and Cargo.toml holds what it held
\* at the start; a run that went through the trial loop without a hard
\* failure ends Exhausted or Succeeded; a run that ends Succeeded has run
\* between 1 and n_1*...*n_p trial builds.
C15_TrialCount ==
    LET total == Product(candidates_map, DOMAIN candidates_map)
    IN /\ outcome = "exhausted" =>
            /\ Len(trials) = total
            /\ Len(trials) = Len(all_combinations)
            /\ \A k \in 1..Len(trials) :
                 trials[k] = apply_combo(cargo0, all_combinations[k])
            /\ last_build = "failed"
            /\ cargo_writes = 0
            /\ cargoToml = cargo0
       /\ (pc = "Done" /\ all_combinations # <<>> /\ outcome \notin {"error", "panic"}) =>
            /\ outcome \in {"exhausted", "succeeded"}
            /\ last_build = "failed" <=> outcome = "exhausted"
       /\ outcome = "succeeded" =>
            /\ Len(trials) >= 1
            /\ Len(trials) <= total

C15_Witness ==
    /\ outcome = "exhausted"
    /\ Cardinality(DOMAIN candidates_map) = 2
    /\ \A k \in DOMAIN candidates_map : Len(candidates_map[k]) = 2
    /\ Len(trials) = 4

\* C16: the exit status is 0 exactly when the run ended on the help text,
\* on a successful initial build, on diagnostics without a parseable issue,
\* on a successful trial whose result was written to Cargo.toml, or on the
\* exhaustion of the combinations; it is not 0 exactly when an error or a
\* panic (I/O, manifest, registry, version parse, index) stopped the run.
C16_ExitStatus ==
    /\ pc # "Done" => exit_code = -1
    /\ pc = "Done" =>
         /\ exit_code \in {0, 1, 101}
         /\ exit_code = 0 <=>
              outcome \in {"help", "fastpath", "no_issue", "succeeded", "exhausted"}
         /\ outcome = "help" => build0 = "none"
         /\ outcome = "fastpath" <=> build0 = "ok"
         /\ outcome = "no_issue" <=> (build0 = "failed" /\ problem_crates = <<>>)
         /\ outcome = "succeeded" <=>
              (last_build = "ok" /\ cargo_writes = 1 /\ cargoToml = doc)
         /\ outcome = "exhausted" <=>
              (all_combinations # <<>> /\ Len(trials) = Len(all_combinations)
                 /\ last_build = "failed")
         /\ exit_code # 0 <=>
              /\ outcome \in {"error", "panic"}
              /\ failure \in {"spawn", "fetch", "response", "version_parse", "index",
                              "manifest_read", "manifest_parse", "trial_write",
                              "manifest_write"}
         /\ exit_code = 1 <=> outcome = "error"
         /\ exit_code = 101 <=> outcome = "panic"

C16_Witness ==
    /\ pc = "Done"
    /\ outcome = "exhausted"
    /\ exit_code = 0
    /\ Len(trials) = 2

\* n_1 * ... * n_(i-1) for the lists of the keys in the order ks
RECURSIVE Radix(_, _, _)
Radix(map, ks, i) ==
    IF i <= 1 THEN 1 ELSE Len(map[ks[i - 1]]) * Radix(map, ks, i - 1)

\* C17: generate_combinations counts in mixed radix with the first key of
\* its key order as the fastest digit: the j-th combination (j from 0) gives
\* the i-th key the candidate at index (j div (n_1*...*n_(i-1))) mod n_i; the
\* first combination takes index 0 of every list; the enumeration ends when
\* the carry leaves the last key, after n_1*...*n_p combinations.
C17_MixedRadixOrder ==
    pc = "Trialing" =>
        /\ keys \in KeyOrders(candidates_map)
        /\ Len(all_combinations) = Radix(candidates_map, keys, Len(keys) + 1)
        /\ \A i \in 1..Len(keys) :
             all_combinations[1][keys[i]] = candidates_map[keys[i]][1]
        /\ \A j \in 0..(Len(all_combinations) - 1) :
             \A i \in 1..Len(keys) :
                all_combinations[j + 1][keys[i]]
                  = candidates_map[keys[i]]
                      [((j \div Radix(candidates_map, keys, i))
                           % Len(candidates_map[keys[i]])) + 1]

C17_Witness ==
    /\ pc = "Trialing"
    /\ Len(keys) = 3
    /\ \A k \in DOMAIN candidates_map : Len(candidates_map[k]) = 2
    /\ Len(all_combinations) = 8
    /\ all_combinations[2][keys[1]] # all_combinations[1][keys[1]]
    /\ all_combinations[2][keys[2]] = all_combinations[1][keys[2]]
    /\ all_combinations[5][keys[3]] # all_combinations[4][keys[3]]

\* the document is the manifest m with exactly the assignments of combo:
\* the crates of the combination at the combination's versions, every other
\* dependency and the rest of the text as in m
IsTrialOf(d, m, combo) ==
    /\ d.kind = "toml"
    /\ d.rest = m.rest
    /\ \A n \in Names :
         /\ n \in DOMAIN combo => d.deps[n] = combo[n]
         /\ n \notin DOMAIN combo => d.deps[n] = m.deps[n]

\* C18: when a trial build is about to run, Cargo.winch.toml has just been
\* written (once per trial) and holds the content of Cargo.toml as read for
\* this trial with exactly the current combination's assignments: no other
\* dependency differs from Cargo.toml, whatever the earlier trials
\* assigned; each trial build ran on the trial manifest of its own
\* combination, and Cargo.toml is not touched while trials fail.
C18_TrialManifestFresh ==
    /\ Len(trials) <= winch_writes
    /\ winch_writes <= Len(trials) + 1
    /\ pc = "Building" =>
         /\ winch_writes = Len(trials) + 1
         /\ cargoToml = cargo0
         /\ IsTrialOf(winchToml, cargoToml, all_combinations[next_combo])
         /\ \A k \in 1..Len(trials) : \A n \in Names :
              winchToml.deps[n] # trials[k].deps[n] =>
                  n \in DOMAIN all_combinations[next_combo]
    /\ \A k \in 1..Len(trials) :
         IsTrialOf(trials[k], cargo0, all_combinations[k])
    /\ (trials # <<>> /\ last_build # "ok") => cargoToml = cargo0

C18_Witness ==
    /\ pc = "Building"
    /\ Len(trials) = 1
    /\ DOMAIN all_combinations[2] = {"b"}
    /\ winchToml.deps["b"] = all_combinations[2]["b"]
    /\ winchToml.deps["b"] # trials[1].deps["b"]
    /\ winchToml.deps["a"] = V_1_0_0

\* the phases of main() in their order
PhaseRank(p) ==
    CASE p = "Start" -> 0
      [] p = "Fetching" -> 1
      [] p = "Enumerating" -> 2
      [] p \in {"Trialing", "Building", "Committing"} -> 3
      [] p = "Done" -> 4

\* C19: every run ends (help, fast path, no parseable issue, Succeeded,
\* Exhausted, or a hard failure) and takes no step after its end; the phases
\* follow one another in the order initial build and diagnosis, fetching,
\* enumeration, trials, never going back; every pass of the fetch loop
\* consumes one problem crate and every failed trial advances the trial
\* loop by one combination, so both loops end.
C19_RunTerminates ==
    /\ <>(pc = "Done")
    /\ [][pc # "Done"]_vars
    /\ [][PhaseRank(pc') >= PhaseRank(pc)]_vars
    /\ [][(pc = "Fetching" /\ pc' = "Fetching") => Len(queries') = Len(queries) + 1]_vars
    /\ [][(pc = "Building" /\ pc' = "Trialing") => next_combo' = next_combo + 1]_vars
    /\ [][next_combo' >= next_combo /\ next_combo' <= Len(all_combinations') + 1]_vars

C19_Witness ==
    /\ pc = "Done"
    /\ outcome = "exhausted"
    /\ Len(queries) = 2
    /\ Len(all_combinations) = 4
    /\ Len(trials) = 4
    /\ next_combo = 5

\* a list returned for a Missing crate that holds a version that does not
\* parse
InvalidForMissing(q) ==
    /\ q.res = "ok"
    /\ q.name \in Range(missing_crates)
    /\ \E k \in 1..Len(q.versions) : ~parse_ok(q.versions[k])

\* the run stopped at query i, in the reordering, before any enumeration,
\* trial or manifest write
FatalAtReordering(i) ==
    /\ i = Len(queries)
    /\ pc = "Done"
    /\ outcome = "panic"
    /\ failure = "version_parse"
    /\ all_combinations = <<>>
    /\ trials = <<>>
    /\ winch_writes = 0
    /\ cargo_writes = 0

\* the part of C20 for lists of two or more candidates
InvalidVersionFatalFromTwo ==
    \A i \in 1..Len(queries) :
        (InvalidForMissing(queries[i]) /\ Len(queries[i].versions) >= 2) =>
            FatalAtReordering(i)

\* C20: when a candidate version fetched for a Missing crate is not a valid
\* semantic version, the run stops in the reordering step, before any trial
\* build and without writing a manifest file, whatever the length of the
\* list, a single candidate included.
C20_InvalidVersionIsFatal ==
    \A i \in 1..Len(queries) :
        InvalidForMissing(queries[i]) => FatalAtReordering(i)

====
